---- MODULE Spec2Model ----
(***************************************************************************)
(* FIFO cost-basis and portfolio-aggregation engine of the stock gain      *)
(* tracker (src/src/utils/calculations.ts, helpers it imports).            *)
(*                                                                         *)
(* A JavaScript number is modelled as an exact rational <<n, d>> (d > 0,   *)
(* lowest terms); share quantities, prices and fees of the transactions    *)
(* entering the engine are whole numbers, the values derived from them     *)
(* (fees per share, prorated fees, averages) are rationals.  The `date`    *)
(* of an entry stands for new Date(entry.date).getTime().                  *)
(*                                                                         *)
(* The StockProvider store (src/unnamed/part_000) and its local storage    *)
(* (src/unnamed/part_002) are the second half: a reducer state, callbacks  *)
(* that close over the state of the render that made them, and effects     *)
(* that run after a commit whose dependencies changed.                     *)
(***************************************************************************)
EXTENDS Integers, Sequences, FiniteSets, TLC

VARIABLES
    entries,    \* the caller's transaction array
    op,         \* the engine function called last ("none" before any call)
    arg,        \* the caller's array as it was when that call was made
    prices,     \* the current-price map passed to that call (NoPrices if none)
    ret,        \* what the call returned
    again,      \* TRUE iff that call repeated the call before it: the same
                \* function with the same price map, on the same array
    state,      \* the StockProvider reducer state (entries, portfolio, settings)
    storage,    \* the entries held in localStorage under STOCK_ENTRIES
    closure,    \* the `state` captured by the callbacks the running handler holds
    changed,    \* effect dependencies changed since the effects last ran
    pc,         \* "mount" before the mount effect, "import" inside an import
                \* loop, "idle" otherwise
    rows,       \* entries accepted by the import loop running or last finished
    nextId      \* stands for the id generateId() gives next

engineVars == <<entries, op, arg, prices, ret, again>>
storeVars == <<state, storage, closure, changed, pc, rows, nextId>>
vars == <<entries, op, arg, prices, ret, again, state, storage, closure, changed, pc, rows, nextId>>

\* ---------------------------------------------------------------- bounds
MaxLen == 3
MaxQty == 2
MaxPrice == 2
MaxFee == 1
MaxDate == 3

\* ------------------------------------------------------------- rationals
Abs(x) == IF x < 0 THEN -x ELSE x

RECURSIVE GCD(_, _)
GCD(a, b) == IF b = 0 THEN a ELSE GCD(b, a % b)

Reduce(n, d, g) == <<n \div g, d \div g>>

RNorm(n, d) == Reduce(n, d, GCD(Abs(n), d))

R(n) == <<n, 1>>
Zero == R(0)
RAdd(x, y) == RNorm(x[1] * y[2] + y[1] * x[2], x[2] * y[2])
RNeg(x) == <<-x[1], x[2]>>
RSub(x, y) == RAdd(x, RNeg(y))
RMul(x, y) == RNorm(x[1] * y[1], x[2] * y[2])
\* x / y, for y > 0 (every division of the engine is by a positive number
\* or is guarded by a test that the divisor is > 0)
RDiv(x, y) == RNorm(x[1] * y[2], x[2] * y[1])
RPos(x) == x[1] > 0

Min(a, b) == IF a < b THEN a ELSE b

\* ------------------------------------------------------------ data model
Symbols == <<"AAPL", "MSFT">>          \* in the order String.prototype sort gives
Types == {"buy", "sell"}

\* (variant: an entry is put before the entries of the same date, so equal
\* dates come out in reverse input order)
RECURSIVE InsertByDate_beforeEqual(_, _)
InsertByDate_beforeEqual(sorted, e) ==
    IF sorted = << >> THEN <<e>>
    ELSE IF sorted[Len(sorted)].date < e.date THEN Append(sorted, e)
    ELSE Append(InsertByDate_beforeEqual(SubSeq(sorted, 1, Len(sorted) - 1), e),
                sorted[Len(sorted)])

\* Array.prototype.sort with the comparator date(a) - date(b): ascending by
\* date, stable (equal dates keep their relative order).
RECURSIVE InsertByDate(_, _)
InsertByDate(sorted, e) ==
    IF sorted = << >> THEN <<e>>
    ELSE IF sorted[Len(sorted)].date <= e.date THEN Append(sorted, e)
    ELSE Append(InsertByDate(SubSeq(sorted, 1, Len(sorted) - 1), e), sorted[Len(sorted)])

\* (variant: the array is processed in the order given)
SortByDate_asGiven(es) == es

RECURSIVE SortByDate(_)
SortByDate(es) ==
    IF es = << >> THEN << >>
    ELSE InsertByDate(SortByDate(SubSeq(es, 1, Len(es) - 1)), es[Len(es)])

IsBuy(e) == e.type = "buy"
IsSell(e) == e.type = "sell"

RECURSIVE SumSeq(_)
SumSeq(xs) == IF xs = << >> THEN Zero ELSE RAdd(Head(xs), SumSeq(Tail(xs)))

RECURSIVE SumInt(_)
SumInt(xs) == IF xs = << >> THEN 0 ELSE Head(xs) + SumInt(Tail(xs))

\* buyEntries.reduce((total, entry) => total + entry.quantity * entry.price + entry.fees, 0)
RECURSIVE TotalBuyCostInt(_)
TotalBuyCostInt(es) ==
    IF es = << >> THEN 0
    ELSE (IF IsBuy(Head(es)) THEN Head(es).quantity * Head(es).price + Head(es).fees ELSE 0)
         + TotalBuyCostInt(Tail(es))

TotalBuyCost(es) == R(TotalBuyCostInt(es))

\* buyEntries.reduce((total, entry) => total + entry.quantity, 0)
RECURSIVE TotalBuyShares(_)
TotalBuyShares(es) ==
    IF es = << >> THEN 0
    ELSE (IF IsBuy(Head(es)) THEN Head(es).quantity ELSE 0) + TotalBuyShares(Tail(es))

\* sellEntries.reduce((total, entry) => total + entry.quantity * entry.price - entry.fees, 0)
RECURSIVE TotalSellProceedsInt(_)
TotalSellProceedsInt(es) ==
    IF es = << >> THEN 0
    ELSE (IF IsSell(Head(es)) THEN Head(es).quantity * Head(es).price - Head(es).fees ELSE 0)
         + TotalSellProceedsInt(Tail(es))

TotalSellProceeds(es) == R(TotalSellProceedsInt(es))

\* sellEntries.reduce((total, entry) => total + entry.quantity, 0)
RECURSIVE TotalSellShares(_)
TotalSellShares(es) ==
    IF es = << >> THEN 0
    ELSE (IF IsSell(Head(es)) THEN Head(es).quantity ELSE 0) + TotalSellShares(Tail(es))

\* --------------------------------------------------- the lot queue matcher
\* while (sharesToSell > 0 && buyQueue.length > 0) { ... } of the matcher:
\* takes shares from the front lot, costPerShare = price + fees / quantity
\* with the lot's quantity as it is when the lot is touched.
CostPerShare(buyLot) == RAdd(R(buyLot.price), RDiv(R(buyLot.fees), R(buyLot.quantity)))

\* (variant: shares are taken from the newest lot, buyQueue[buyQueue.length - 1])
TakeFromBack(buyQueue, taken) ==
    IF buyQueue[Len(buyQueue)].quantity - taken = 0
    THEN SubSeq(buyQueue, 1, Len(buyQueue) - 1)
    ELSE [buyQueue EXCEPT ![Len(buyQueue)].quantity = @ - taken]

RECURSIVE ConsumeLots_newestFirst(_, _, _)
RECURSIVE ConsumeBack(_, _, _, _)

ConsumeLots_newestFirst(buyQueue, sharesToSell, costBasis) ==
    IF sharesToSell > 0 /\ Len(buyQueue) > 0
    THEN ConsumeBack(buyQueue, sharesToSell, costBasis,
                     Min(sharesToSell, buyQueue[Len(buyQueue)].quantity))
    ELSE [buyQueue |-> buyQueue, sharesToSell |-> sharesToSell, costBasis |-> costBasis]

ConsumeBack(buyQueue, sharesToSell, costBasis, sharesFromThisLot) ==
    ConsumeLots_newestFirst(
        TakeFromBack(buyQueue, sharesFromThisLot),
        sharesToSell - sharesFromThisLot,
        RAdd(costBasis, RMul(R(sharesFromThisLot), CostPerShare(buyQueue[Len(buyQueue)]))))

\* The front lot after `taken` shares have left it: buyLot.quantity -= taken,
\* and buyQueue.shift() when nothing is left.
TakeFromFront(buyQueue, taken) ==
    IF Head(buyQueue).quantity - taken = 0 THEN Tail(buyQueue)
    ELSE <<[Head(buyQueue) EXCEPT !.quantity = @ - taken]>> \o Tail(buyQueue)

RECURSIVE ConsumeLots(_, _, _)
RECURSIVE ConsumeFront(_, _, _, _)

ConsumeLots(buyQueue, sharesToSell, costBasis) ==
    IF sharesToSell > 0 /\ Len(buyQueue) > 0
    THEN ConsumeFront(buyQueue, sharesToSell, costBasis,
                      Min(sharesToSell, Head(buyQueue).quantity))
    ELSE [buyQueue |-> buyQueue, sharesToSell |-> sharesToSell, costBasis |-> costBasis]

\* one pass of the loop body, sharesFromThisLot taken from buyQueue[0]
ConsumeFront(buyQueue, sharesToSell, costBasis, sharesFromThisLot) ==
    ConsumeLots(TakeFromFront(buyQueue, sharesFromThisLot),
                sharesToSell - sharesFromThisLot,
                RAdd(costBasis, RMul(R(sharesFromThisLot), CostPerShare(Head(buyQueue)))))

RemoveAt(s, i) == SubSeq(s, 1, i - 1) \o SubSeq(s, i + 1, Len(s))

\* let i = 0; while (i < pendingSells.length) { ... } run after a buy.
\* `charged` is the running sum of the cost bases subtracted from proceeds.
\* PendingMatched is the state after pendingSells[i] has been matched
\* against the queue with outcome c: removed and realized when no share of
\* it is left, else kept with the quantity still unmatched.
PendingMatched(st, i, c) ==
    IF c.sharesToSell = 0
    THEN [buyQueue |-> c.buyQueue,
          pendingSells |-> RemoveAt(st.pendingSells, i),
          totalRealizedProfitLoss |->
              RAdd(st.totalRealizedProfitLoss,
                   RSub(RSub(RMul(R(st.pendingSells[i].quantity), R(st.pendingSells[i].price)),
                             st.pendingSells[i].fees),
                        c.costBasis)),
          charged |-> RAdd(st.charged, c.costBasis)]
    ELSE [st EXCEPT !.buyQueue = c.buyQueue,
                    !.pendingSells[i].quantity = c.sharesToSell]

RECURSIVE ResolvePending(_, _)
RECURSIVE ResolveNext(_, _, _)

ResolvePending(st, i) ==
    IF i > Len(st.pendingSells) THEN st
    ELSE ResolveNext(st, i, ConsumeLots(st.buyQueue, st.pendingSells[i].quantity, Zero))

\* splice(i, 1) leaves i in place; otherwise i++
ResolveNext(st, i, c) ==
    ResolvePending(PendingMatched(st, i, c), IF c.sharesToSell = 0 THEN i ELSE i + 1)

NewLot(entry) == [quantity |-> entry.quantity, price |-> entry.price, fees |-> entry.fees]

\* (variant: the pending sells are not looked at when a buy comes in)
ProcessBuy_noResolve(st, entry) ==
    [st EXCEPT !.buyQueue = Append(st.buyQueue, NewLot(entry))]

ProcessBuy(st, entry) ==
    ResolvePending([st EXCEPT !.buyQueue = Append(st.buyQueue, NewLot(entry))], 1)

\* (variant: the pending part keeps the sell's whole fee, unprorated)
SellMatched_fullFees(st, entry, c) ==
    [buyQueue |-> c.buyQueue,
     pendingSells |->
        IF c.sharesToSell > 0
        THEN Append(st.pendingSells,
                    [quantity |-> c.sharesToSell,
                     price |-> entry.price,
                     fees |-> R(entry.fees),
                     date |-> entry.date])
        ELSE st.pendingSells,
     totalRealizedProfitLoss |->
        IF RPos(c.costBasis)
        THEN RAdd(st.totalRealizedProfitLoss,
                  RSub(RSub(RMul(R(entry.quantity - c.sharesToSell), R(entry.price)),
                            RMul(R(entry.fees),
                                 RDiv(R(entry.quantity - c.sharesToSell), R(entry.quantity)))),
                       c.costBasis))
        ELSE st.totalRealizedProfitLoss,
     charged |-> IF RPos(c.costBasis) THEN RAdd(st.charged, c.costBasis) ELSE st.charged]

\* The sell branch once the loop over the queue has ended with outcome c.
SellMatched(st, entry, c) ==
    [buyQueue |-> c.buyQueue,
     pendingSells |->
        IF c.sharesToSell > 0
        THEN Append(st.pendingSells,
                    [quantity |-> c.sharesToSell,
                     price |-> entry.price,
                     fees |-> RMul(R(entry.fees), RDiv(R(c.sharesToSell), R(entry.quantity))),
                     date |-> entry.date])
        ELSE st.pendingSells,
     totalRealizedProfitLoss |->
        IF RPos(c.costBasis)
        THEN RAdd(st.totalRealizedProfitLoss,
                  RSub(RSub(RMul(R(entry.quantity - c.sharesToSell), R(entry.price)),
                            RMul(R(entry.fees),
                                 RDiv(R(entry.quantity - c.sharesToSell), R(entry.quantity)))),
                       c.costBasis))
        ELSE st.totalRealizedProfitLoss,
     charged |-> IF RPos(c.costBasis) THEN RAdd(st.charged, c.costBasis) ELSE st.charged]

ProcessSell(st, entry) ==
    SellMatched(st, entry, ConsumeLots(st.buyQueue, entry.quantity, Zero))

ProcessEntry(st, entry) ==
    IF entry.type = "buy" THEN ProcessBuy(st, entry)
    ELSE IF entry.type = "sell" THEN ProcessSell(st, entry)
    ELSE st

MatcherInit ==
    [buyQueue |-> << >>, pendingSells |-> << >>,
     totalRealizedProfitLoss |-> Zero, charged |-> Zero]

\* sortedEntries.forEach(entry => ...)
RECURSIVE MatchEntries(_, _)
MatchEntries(st, sortedEntries) ==
    IF sortedEntries = << >> THEN st
    ELSE MatchEntries(ProcessEntry(st, Head(sortedEntries)), Tail(sortedEntries))

\* (variant: the pending sell's fees are not subtracted from its proceeds)
RECURSIVE ResolveLeftover_noFees(_, _, _)
ResolveLeftover_noFees(st, i, averageCostPerShare) ==
    IF i > Len(st.pendingSells) THEN st
    ELSE ResolveLeftover_noFees(
            [st EXCEPT
                !.totalRealizedProfitLoss =
                    RAdd(@, RSub(RMul(R(st.pendingSells[i].quantity),
                                      R(st.pendingSells[i].price)),
                                 RMul(R(st.pendingSells[i].quantity), averageCostPerShare))),
                !.charged = RAdd(@, RMul(R(st.pendingSells[i].quantity), averageCostPerShare))],
            i + 1, averageCostPerShare)

\* if (pendingSells.length > 0) { ... }: what is left unmatched is priced
\* with the average cost of all buys of the symbol.
RECURSIVE ResolveLeftover(_, _, _)
ResolveLeftover(st, i, averageCostPerShare) ==
    IF i > Len(st.pendingSells) THEN st
    ELSE ResolveLeftover(
            [st EXCEPT
                !.totalRealizedProfitLoss =
                    RAdd(@, RSub(RSub(RMul(R(st.pendingSells[i].quantity),
                                           R(st.pendingSells[i].price)),
                                      st.pendingSells[i].fees),
                                 RMul(R(st.pendingSells[i].quantity), averageCostPerShare))),
                !.charged = RAdd(@, RMul(R(st.pendingSells[i].quantity), averageCostPerShare))],
            i + 1, averageCostPerShare)

\* (variant: without buys the pending sells are resolved at a cost of 0)
FinishMatcher_costZero(st, stockEntries) ==
    IF Len(st.pendingSells) > 0
    THEN ResolveLeftover(st, 1,
             IF TotalBuyShares(stockEntries) > 0
             THEN RDiv(TotalBuyCost(stockEntries), R(TotalBuyShares(stockEntries)))
             ELSE Zero)
    ELSE st

\* What follows the forEach, on the matcher state st it has left.
FinishMatcher(st, stockEntries) ==
    IF Len(st.pendingSells) > 0
       /\ Len(SelectSeq(stockEntries, IsBuy)) > 0
       /\ TotalBuyShares(stockEntries) > 0
    THEN ResolveLeftover(st, 1,
             RDiv(TotalBuyCost(stockEntries), R(TotalBuyShares(stockEntries))))
    ELSE st

\* The whole of calculateRealizedProfitLossForStock, as the final matcher
\* state: the returned total, the queues left, the cost basis charged.
RunMatcher(stockEntries) ==
    FinishMatcher(MatchEntries(MatcherInit, SortByDate(stockEntries)), stockEntries)

calculateRealizedProfitLossForStock(stockEntries) ==
    RunMatcher(stockEntries).totalRealizedProfitLoss

\* while (sharesToSell > 0 && buyQueue.length > 0) { ... } of the two
\* remaining-lot functions: the same walk, without a cost.
\* (variant: a lot that is touched is dropped whole, buyQueue.shift() without
\* the test buyLot.quantity === 0)
RECURSIVE RemoveSold_wholeLot(_, _)
RemoveSold_wholeLot(buyQueue, sharesToSell) ==
    IF sharesToSell > 0 /\ Len(buyQueue) > 0
    THEN RemoveSold_wholeLot(Tail(buyQueue),
                             sharesToSell - Min(sharesToSell, Head(buyQueue).quantity))
    ELSE buyQueue

\* (variant: a sell takes shares from the first lot only, `if` for `while`)
RemoveSold_firstLotOnly(buyQueue, sharesToSell) ==
    IF sharesToSell > 0 /\ Len(buyQueue) > 0
    THEN TakeFromFront(buyQueue, Min(sharesToSell, Head(buyQueue).quantity))
    ELSE buyQueue

RECURSIVE RemoveSold(_, _)
RemoveSold(buyQueue, sharesToSell) ==
    IF sharesToSell > 0 /\ Len(buyQueue) > 0
    THEN RemoveSold(TakeFromFront(buyQueue, Min(sharesToSell, Head(buyQueue).quantity)),
                    sharesToSell - Min(sharesToSell, Head(buyQueue).quantity))
    ELSE buyQueue

RECURSIVE OpenLots(_, _)
OpenLots(buyQueue, sortedEntries) ==
    IF sortedEntries = << >> THEN buyQueue
    ELSE OpenLots(IF Head(sortedEntries).type = "buy"
                  THEN Append(buyQueue, NewLot(Head(sortedEntries)))
                  ELSE IF Head(sortedEntries).type = "sell"
                  THEN RemoveSold(buyQueue, Head(sortedEntries).quantity)
                  ELSE buyQueue,
                  Tail(sortedEntries))

\* (lot.quantity * lot.price) + lot.fees
LotCost(lot) == R(lot.quantity * lot.price + lot.fees)

LotsCost(buyQueue) == SumSeq([i \in 1..Len(buyQueue) |-> LotCost(buyQueue[i])])
LotsShares(buyQueue) == SumInt([i \in 1..Len(buyQueue) |-> buyQueue[i].quantity])

\* totalShares > 0 ? totalCostBasis / totalShares : 0
AverageLotCost(buyQueue) ==
    IF LotsShares(buyQueue) > 0
    THEN RDiv(LotsCost(buyQueue), R(LotsShares(buyQueue)))
    ELSE Zero

calculateFIFOAverageCost(es) == AverageLotCost(OpenLots(<< >>, SortByDate(es)))

calculateFIFOCostBasis(es) ==
    LotsCost(OpenLots(<< >>, SortByDate(es)))

\* ------------------------------------------------------------- helpers
\* [...new Set(entries.map(e => e.symbol))].sort()
getUniqueSymbols(es) ==
    SelectSeq(Symbols, LAMBDA s : \E i \in 1..Len(es) : es[i].symbol = s)

EntriesOf(es, symbol) == SelectSeq(es, LAMBDA e : e.symbol = symbol)

RECURSIVE SharesFold(_, _)
SharesFold(total, es) ==
    IF es = << >> THEN total
    ELSE SharesFold(IF Head(es).type = "buy" THEN total + Head(es).quantity
                    ELSE total - Head(es).quantity, Tail(es))

calculateSharesOwned(es, symbol) == SharesFold(0, EntriesOf(es, symbol))

\* Array.prototype.sort with the comparator date(b) - date(a): descending
\* by date, stable.
RECURSIVE InsertByDateDesc(_, _)
InsertByDateDesc(sorted, e) ==
    IF sorted = << >> THEN <<e>>
    ELSE IF sorted[Len(sorted)].date >= e.date THEN Append(sorted, e)
    ELSE Append(InsertByDateDesc(SubSeq(sorted, 1, Len(sorted) - 1), e), sorted[Len(sorted)])

\* (variant: the comparator is date(a) - date(b), oldest first)
SortByDateDesc_ascending(es) == SortByDate(es)

RECURSIVE SortByDateDesc(_)
SortByDateDesc(es) ==
    IF es = << >> THEN << >>
    ELSE InsertByDateDesc(SortByDateDesc(SubSeq(es, 1, Len(es) - 1)), es[Len(es)])

\* ------------------------------------------------ portfolio aggregation
\* buyEntries[0].price, else the price of the symbol's last entry, else 0
PriceToUse(buyEntries, lastEntries) ==
    IF Len(buyEntries) > 0 THEN buyEntries[1].price
    ELSE IF Len(lastEntries) > 0 THEN lastEntries[1].price
    ELSE 0

HoldingValue(sharesOwned, priceToUse) ==
    IF sharesOwned > 0 /\ priceToUse > 0 THEN sharesOwned * priceToUse ELSE 0

SymbolValue(es, symbol) ==
    HoldingValue(calculateSharesOwned(es, symbol),
                 PriceToUse(SortByDateDesc(SelectSeq(EntriesOf(es, symbol), IsBuy)),
                            SortByDateDesc(EntriesOf(es, symbol))))

RECURSIVE SumValues(_, _)
SumValues(es, uniqueStocks) ==
    IF uniqueStocks = << >> THEN 0
    ELSE SymbolValue(es, Head(uniqueStocks)) + SumValues(es, Tail(uniqueStocks))

calculateCurrentPortfolioValue(es) == R(SumValues(es, getUniqueSymbols(es)))

NoPrices == << >>
\* (variant: a symbol without a price in the map is priced at 1)
PriceOf_defaultsToOne(currentMarketPrices, symbol) ==
    IF symbol \in DOMAIN currentMarketPrices THEN currentMarketPrices[symbol] ELSE 1

\* currentMarketPrices?.[symbol] || 0
PriceOf(currentMarketPrices, symbol) ==
    IF symbol \in DOMAIN currentMarketPrices THEN currentMarketPrices[symbol] ELSE 0

\* stockEntries[0]?.stockName || symbol
StockNameOf(stockEntries, symbol) ==
    IF stockEntries # << >> /\ stockEntries[1].stockName # ""
    THEN stockEntries[1].stockName ELSE symbol

\* sharesOwned > 0 && currentMarketPrice > 0 ? sharesOwned * currentMarketPrice : 0
CurrentValue(sharesOwned, currentMarketPrice) ==
    IF sharesOwned > 0 /\ currentMarketPrice > 0
    THEN R(sharesOwned * currentMarketPrice) ELSE Zero

\* (variant: the difference is taken without the test on shares and price)
UnrealizedGainLoss_unguarded(sharesOwned, currentMarketPrice, costOfHeld) ==
    RSub(CurrentValue(sharesOwned, currentMarketPrice), costOfHeld)

\* sharesOwned > 0 && currentMarketPrice > 0 ? currentValue - costOfHeld : 0
UnrealizedGainLoss(sharesOwned, currentMarketPrice, costOfHeld) ==
    IF sharesOwned > 0 /\ currentMarketPrice > 0
    THEN RSub(CurrentValue(sharesOwned, currentMarketPrice), costOfHeld) ELSE Zero

\* The record the map callback returns, from the values it has computed.
PositionRecord(symbol, stockEntries, sortedEntries, sharesOwned, realized, average, basis, price, unrealized) ==
    [symbol |-> symbol,
     stockName |-> StockNameOf(stockEntries, symbol),
     totalSharesBought |-> TotalBuyShares(stockEntries),
     totalSharesSold |-> TotalSellShares(stockEntries),
     sharesOwned |-> sharesOwned,
     averageCost |-> average,
     totalInvested |-> TotalBuyCost(stockEntries),
     totalReceived |-> TotalSellProceeds(stockEntries),
     realizedProfitLoss |-> realized,
     currentValue |-> CurrentValue(sharesOwned, price),
     unrealizedGainLoss |-> unrealized,
     totalGainLoss |-> RAdd(realized, unrealized),
     remainingSharesCostBasis |-> basis,
     transactions |-> sortedEntries]

\* The map callback of calculateStockPositions on stockEntries =
\* entries.filter(...), a fresh array.  The realized-profit call sorts that
\* array in place, so the two calls after it and the `transactions` handed
\* out see it in date order; unrealizedGainLoss is taken against
\* remainingSharesCostBasis.
PositionOf(symbol, stockEntries, sortedEntries, sharesOwned, price, remainingSharesCostBasis) ==
    PositionRecord(symbol, stockEntries, sortedEntries, sharesOwned,
                   calculateRealizedProfitLossForStock(stockEntries),
                   calculateFIFOAverageCost(sortedEntries),
                   remainingSharesCostBasis, price,
                   UnrealizedGainLoss(sharesOwned, price, remainingSharesCostBasis))

\* (variant: sharesOwned = Math.max(0, totalSharesBought - totalSharesSold))
StockPositionOf_clamped(symbol, stockEntries, currentMarketPrice) ==
    PositionOf(symbol, stockEntries, SortByDate(stockEntries),
               IF TotalBuyShares(stockEntries) < TotalSellShares(stockEntries) THEN 0
               ELSE TotalBuyShares(stockEntries) - TotalSellShares(stockEntries),
               currentMarketPrice,
               calculateFIFOCostBasis(SortByDate(stockEntries)))

StockPositionOf(symbol, stockEntries, currentMarketPrice) ==
    PositionOf(symbol, stockEntries, SortByDate(stockEntries),
               TotalBuyShares(stockEntries) - TotalSellShares(stockEntries),
               currentMarketPrice,
               calculateFIFOCostBasis(SortByDate(stockEntries)))

\* (variant: the callback works on the whole list, entries.filter(...) left out)
StockPosition_allEntries(es, symbol, currentMarketPrices) ==
    StockPositionOf(symbol, es, PriceOf(currentMarketPrices, symbol))

StockPosition(es, symbol, currentMarketPrices) ==
    StockPositionOf(symbol, EntriesOf(es, symbol), PriceOf(currentMarketPrices, symbol))

RECURSIVE MapPositions(_, _, _)
MapPositions(es, uniqueStocks, currentMarketPrices) ==
    IF uniqueStocks = << >> THEN << >>
    ELSE <<StockPosition(es, Head(uniqueStocks), currentMarketPrices)>>
         \o MapPositions(es, Tail(uniqueStocks), currentMarketPrices)

\* (variant: positions without shares are filtered out of the result)
calculateStockPositions_heldOnly(es, currentMarketPrices) ==
    SelectSeq(MapPositions(es, getUniqueSymbols(es), currentMarketPrices),
              LAMBDA position : position.sharesOwned > 0)

calculateStockPositions(es, currentMarketPrices) ==
    MapPositions(es, getUniqueSymbols(es), currentMarketPrices)

\* The map callback of calculateAllStockPositions: the same, but
\* unrealizedGainLoss is taken against sharesOwned * averageCost.
AllPositionOf(symbol, stockEntries, sortedEntries, sharesOwned, price, averageCost) ==
    PositionRecord(symbol, stockEntries, sortedEntries, sharesOwned,
                   calculateRealizedProfitLossForStock(stockEntries),
                   averageCost,
                   calculateFIFOCostBasis(sortedEntries), price,
                   UnrealizedGainLoss(sharesOwned, price, RMul(R(sharesOwned), averageCost)))

AllStockPositionOf(symbol, stockEntries, currentMarketPrice) ==
    AllPositionOf(symbol, stockEntries, SortByDate(stockEntries),
                  TotalBuyShares(stockEntries) - TotalSellShares(stockEntries),
                  currentMarketPrice,
                  calculateFIFOAverageCost(SortByDate(stockEntries)))

AllStockPosition(es, symbol, currentMarketPrices) ==
    AllStockPositionOf(symbol, EntriesOf(es, symbol), PriceOf(currentMarketPrices, symbol))

RECURSIVE MapAllPositions(_, _, _)
MapAllPositions(es, uniqueStocks, currentMarketPrices) ==
    IF uniqueStocks = << >> THEN << >>
    ELSE <<AllStockPosition(es, Head(uniqueStocks), currentMarketPrices)>>
         \o MapAllPositions(es, Tail(uniqueStocks), currentMarketPrices)

calculateAllStockPositions(es, currentMarketPrices) ==
    MapAllPositions(es, getUniqueSymbols(es), currentMarketPrices)

HasHoldings(position) == position.sharesOwned > 0

\* (variant: the ratio, not multiplied by 100)
GainLossPercentage_ratio(totalGainLoss, totalInvested) ==
    IF RPos(totalInvested) THEN RDiv(totalGainLoss, totalInvested) ELSE Zero

\* totalInvested > 0 ? (totalGainLoss / totalInvested) * 100 : 0
GainLossPercentage(totalGainLoss, totalInvested) ==
    IF RPos(totalInvested) THEN RMul(RDiv(totalGainLoss, totalInvested), R(100)) ELSE Zero

\* (variant: only the positions of completely sold symbols are summed)
RECURSIVE SumRealized_closedOnly(_)
SumRealized_closedOnly(positions) ==
    IF positions = << >> THEN Zero
    ELSE RAdd(IF Head(positions).sharesOwned = 0 THEN Head(positions).realizedProfitLoss
              ELSE Zero,
              SumRealized_closedOnly(Tail(positions)))

\* allStockPositions.reduce((total, position) => total + position.realizedProfitLoss, 0)
RECURSIVE SumRealized(_)
SumRealized(positions) ==
    IF positions = << >> THEN Zero
    ELSE RAdd(Head(positions).realizedProfitLoss, SumRealized(Tail(positions)))

\* .filter(position => position.sharesOwned > 0)
\* .reduce((total, position) => total + position.unrealizedGainLoss, 0)
RECURSIVE SumUnrealized(_)
SumUnrealized(positions) ==
    IF positions = << >> THEN Zero
    ELSE RAdd(IF HasHoldings(Head(positions)) THEN Head(positions).unrealizedGainLoss
              ELSE Zero,
              SumUnrealized(Tail(positions)))

\* (variant: totalReceived is summed without subtracting the sell fees)
StatsRecord_grossReceived(es, totalInvested, realizedProfitLoss, unrealizedGainLoss, allPositions) ==
    [totalInvested |-> totalInvested,
     totalReceived |->
        R(SumInt([i \in 1..Len(SelectSeq(es, IsSell)) |->
                    SelectSeq(es, IsSell)[i].quantity * SelectSeq(es, IsSell)[i].price])),
     realizedProfitLoss |-> realizedProfitLoss,
     currentValue |-> calculateCurrentPortfolioValue(es),
     unrealizedGainLoss |-> unrealizedGainLoss,
     totalGainLoss |-> RAdd(realizedProfitLoss, unrealizedGainLoss),
     gainLossPercentage |->
        GainLossPercentage(RAdd(realizedProfitLoss, unrealizedGainLoss), totalInvested),
     uniqueStocks |-> Len(getUniqueSymbols(es)),
     stocksWithHoldings |-> Len(SelectSeq(allPositions, HasHoldings)),
     totalTransactions |-> Len(es)]

\* The record calculatePortfolioStats returns, from the values it has computed.
StatsRecord(es, totalInvested, realizedProfitLoss, unrealizedGainLoss, allPositions) ==
    [totalInvested |-> totalInvested,
     totalReceived |-> TotalSellProceeds(es),
     realizedProfitLoss |-> realizedProfitLoss,
     currentValue |-> calculateCurrentPortfolioValue(es),
     unrealizedGainLoss |-> unrealizedGainLoss,
     totalGainLoss |-> RAdd(realizedProfitLoss, unrealizedGainLoss),
     gainLossPercentage |->
        GainLossPercentage(RAdd(realizedProfitLoss, unrealizedGainLoss), totalInvested),
     uniqueStocks |-> Len(getUniqueSymbols(es)),
     stocksWithHoldings |-> Len(SelectSeq(allPositions, HasHoldings)),
     totalTransactions |-> Len(es)]

StatsOf(es, allStockPositions, allPositions) ==
    StatsRecord(es, TotalBuyCost(es), SumRealized(allStockPositions),
                SumUnrealized(allPositions), allPositions)

calculatePortfolioStats(es) ==
    StatsOf(es, calculateStockPositions(es, NoPrices), calculateAllStockPositions(es, NoPrices))

\* ------------------------------------------------------- the entries store
MaxEntries == 3                 \* entries created in one run: ids 1..MaxEntries
Today == 2                      \* new Date() at the time of a validation

\* state.portfolio: null is the empty sequence, a portfolio p is <<p>>.
NoPortfolio == << >>

initialState ==
    [entries |-> << >>, portfolio |-> NoPortfolio, settings |-> [autoSave |-> TRUE]]

\* The cases of the reducer that write entries, portfolio or settings
\* (loading and error are not modelled).
stockReducer(st, action) ==
    CASE action.type = "LOAD_ENTRIES" ->
            [st EXCEPT !.entries = action.payload]
      [] action.type = "ADD_ENTRY" ->
            [st EXCEPT !.entries = Append(st.entries, action.payload)]
      [] action.type = "UPDATE_ENTRY" ->
            [st EXCEPT !.entries =
                [i \in 1..Len(st.entries) |->
                    IF st.entries[i].id = action.payload.id
                    THEN action.payload.entry ELSE st.entries[i]]]
      [] action.type = "DELETE_ENTRY" ->
            [st EXCEPT !.entries = SelectSeq(st.entries, LAMBDA e : e.id # action.payload)]
      [] action.type = "CLEAR_ENTRIES" ->
            [st EXCEPT !.entries = << >>]
      [] action.type = "UPDATE_PORTFOLIO" ->
            [st EXCEPT !.portfolio = action.payload]
      [] action.type = "UPDATE_SETTINGS" ->
            [st EXCEPT !.settings = [st.settings EXCEPT !.autoSave = action.payload.autoSave]]
      [] OTHER -> st

\* The fields of the errors validateStockEntry returns for a form.
validateStockEntry(data) ==
    {f \in {"symbol", "quantity", "price", "date", "fees"} :
        \/ f = "symbol" /\ data.symbol = ""
        \/ f = "quantity" /\ data.quantity <= 0
        \/ f = "price" /\ data.price <= 0
        \/ f = "date" /\ data.date > Today
        \/ f = "fees" /\ data.fees < 0}

\* The entry made from a form: no stockName is copied ("" stands for none).
createStockEntry(formData, id) ==
    [id |-> id, symbol |-> formData.symbol, stockName |-> "", type |-> formData.type,
     quantity |-> formData.quantity, price |-> formData.price, date |-> formData.date,
     fees |-> formData.fees]

\* { ...entry, ...updates }: id and stockName stay, the form's fields replace.
updateStockEntry(entry, updates) ==
    [entry EXCEPT !.symbol = IF updates.symbol # "" THEN updates.symbol ELSE entry.symbol,
                  !.type = updates.type, !.quantity = updates.quantity,
                  !.price = updates.price, !.date = updates.date, !.fees = updates.fees]

\* What loadStockEntries returns for a stored array: an entry without a
\* stockName gets its symbol for one.
loadStockEntries(stored) ==
    [i \in 1..Len(stored) |->
        IF stored[i].stockName = "" THEN [stored[i] EXCEPT !.stockName = stored[i].symbol]
        ELSE stored[i]]

\* The portfolio the portfolio effect computes from state.entries
\* (lastUpdated, a timestamp, is left out).
PortfolioOf(es) ==
    [entries |-> es, stats |-> calculatePortfolioStats(es),
     positions |-> calculateStockPositions(es, NoPrices)]

\* The store as it is before the provider's mount effect has run.
StoreNotMounted ==
    /\ state = initialState
    /\ closure = initialState
    /\ changed = {}
    /\ pc = "mount"
    /\ rows = 0
    /\ nextId = 1

\* ------------------------------------------------- single-symbol inputs
\* Transactions of one symbol, as validateStockEntry lets them in:
\* quantity > 0, price > 0, fees >= 0.
LotEntry ==
    [symbol : {Symbols[1]}, stockName : {"Apple"}, type : Types,
     quantity : 1..MaxQty, price : 1..MaxPrice, date : 1..MaxDate, fees : 0..MaxFee]

InitLot ==
    /\ \E n \in 0..MaxLen : entries \in [1..n -> LotEntry]
    /\ op = "none"
    /\ arg = << >>
    /\ prices = NoPrices
    /\ ret = Zero
    /\ again = FALSE
    /\ StoreNotMounted
    /\ storage = << >>

\* A call f(entries) by a caller holding the array `entries`: the array is
\* sorted in place by the callee, the records in it are not written.
CallRealizedProfitLoss ==
    /\ op' = "calculateRealizedProfitLossForStock"
    /\ arg' = entries
    /\ prices' = NoPrices
    /\ ret' = calculateRealizedProfitLossForStock(entries)
    /\ again' = (op = "calculateRealizedProfitLossForStock")
    /\ entries' = SortByDate(entries)
    /\ UNCHANGED storeVars

CallFIFOAverageCost ==
    /\ op' = "calculateFIFOAverageCost"
    /\ arg' = entries
    /\ prices' = NoPrices
    /\ ret' = calculateFIFOAverageCost(entries)
    /\ again' = (op = "calculateFIFOAverageCost")
    /\ entries' = SortByDate(entries)
    /\ UNCHANGED storeVars

CallFIFOCostBasis ==
    /\ op' = "calculateFIFOCostBasis"
    /\ arg' = entries
    /\ prices' = NoPrices
    /\ ret' = calculateFIFOCostBasis(entries)
    /\ again' = (op = "calculateFIFOCostBasis")
    /\ entries' = SortByDate(entries)
    /\ UNCHANGED storeVars

NextLot ==
    \/ CallRealizedProfitLoss
    \/ CallFIFOAverageCost
    \/ CallFIFOCostBasis

SpecLot == InitLot /\ [][NextLot]_vars

\* -------------------------------------------------- portfolio inputs
MarketPrice == 3

\* Trades of the first symbol carry a fee, trades of the second symbol are
\* made at one price, without fees and without a display name.
PortfolioEntry ==
    [symbol : {Symbols[1]}, stockName : {"Apple"}, type : Types,
     quantity : 1..MaxQty, price : 1..MaxPrice, date : 1..MaxDate, fees : {MaxFee}]
    \cup
    [symbol : {Symbols[2]}, stockName : {""}, type : Types,
     quantity : 1..MaxQty, price : {1}, date : 1..MaxDate, fees : {0}]

DistinctDates(es) == \A i, j \in 1..Len(es) : i # j => es[i].date # es[j].date

PriceMaps == {NoPrices, [s \in {Symbols[1]} |-> MarketPrice]}

Init ==
    /\ \E n \in 0..MaxLen : entries \in [1..n -> PortfolioEntry]
    /\ DistinctDates(entries)
    /\ op = "none"
    /\ arg = << >>
    /\ prices = NoPrices
    /\ ret = Zero
    /\ again = FALSE
    /\ StoreNotMounted
    /\ storage = << >>

\* calculateStockPositions and calculatePortfolioStats work on arrays they
\* make themselves (filter, map); the caller's array is not written.
CallStockPositions ==
    \E currentMarketPrices \in PriceMaps :
        /\ op' = "calculateStockPositions"
        /\ arg' = entries
        /\ prices' = currentMarketPrices
        /\ ret' = calculateStockPositions(entries, currentMarketPrices)
        /\ again' = (op = "calculateStockPositions" /\ prices = currentMarketPrices)
        /\ UNCHANGED entries
        /\ UNCHANGED storeVars

\* (variant: the callee sorts the caller's array, entries.sort(...), not a copy)
CallPortfolioStats_sortsInPlace ==
    /\ op' = "calculatePortfolioStats"
    /\ arg' = entries
    /\ prices' = NoPrices
    /\ ret' = calculatePortfolioStats(entries)
    /\ again' = (op = "calculatePortfolioStats")
    /\ entries' = SortByDate(entries)
    /\ UNCHANGED storeVars

CallPortfolioStats ==
    /\ op' = "calculatePortfolioStats"
    /\ arg' = entries
    /\ prices' = NoPrices
    /\ ret' = calculatePortfolioStats(entries)
    /\ again' = (op = "calculatePortfolioStats")
    /\ UNCHANGED entries
    /\ UNCHANGED storeVars

Next ==
    \/ CallStockPositions
    \/ CallPortfolioStats

Spec == Init /\ [][Next]_vars

\* ------------------------------------------------------- store behaviour
\* Forms a user or an import row can submit; a quantity of 0 is refused.
FormData ==
    [symbol : {Symbols[1]}, type : Types, quantity : 0..1, price : {1}, date : {1}, fees : {0}]

\* What localStorage holds when the provider mounts.
StoredAtStart ==
    {<< >>,
     <<[id |-> 0, symbol |-> Symbols[1], stockName |-> "", type |-> "buy",
        quantity |-> 1, price |-> 1, date |-> 1, fees |-> 0]>>}

InitStore ==
    /\ entries = << >>
    /\ op = "none"
    /\ arg = << >>
    /\ prices = NoPrices
    /\ ret = Zero
    /\ again = FALSE
    /\ StoreNotMounted
    /\ storage \in StoredAtStart

\* The dependencies a dispatch changes: a new entries array, a new autoSave.
DepsChanged(before, after, newArray) ==
    (IF newArray THEN {"entries"} ELSE {})
    \cup (IF after.settings.autoSave # before.settings.autoSave THEN {"autoSave"} ELSE {})

\* The mount effect: the stored settings (autoSave defaults to true) and the
\* stored entries are loaded into the state.
Mount ==
    /\ pc = "mount"
    /\ \E storedAutoSave \in BOOLEAN :
        LET loaded == stockReducer(
                        stockReducer(state, [type |-> "UPDATE_SETTINGS",
                                             payload |-> [autoSave |-> storedAutoSave]]),
                        [type |-> "LOAD_ENTRIES", payload |-> loadStockEntries(storage)])
        IN /\ state' = loaded
           /\ changed' = changed \cup DepsChanged(state, loaded, TRUE)
    /\ pc' = "idle"
    /\ UNCHANGED <<storage, closure, rows, nextId>>
    /\ UNCHANGED engineVars

\* A commit whose dependencies changed runs the portfolio effect (on a new
\* entries array) and the auto-save effect (on new entries or autoSave).
\* Storage is taken to be available: saveStockEntries writes what it is given.
RunEffects ==
    /\ changed # {}
    /\ state' = IF "entries" \in changed /\ Len(state.entries) > 0
                THEN stockReducer(state, [type |-> "UPDATE_PORTFOLIO",
                                          payload |-> <<PortfolioOf(state.entries)>>])
                ELSE state
    /\ storage' = IF state.settings.autoSave /\ Len(state.entries) > 0
                  THEN state.entries ELSE storage
    /\ changed' = {}
    /\ UNCHANGED <<closure, pc, rows, nextId>>
    /\ UNCHANGED engineVars

\* addEntry of the render that captured `cl`: the entry is dispatched to the
\* current state and [...cl.entries, newEntry] is written to storage.
addEntry(cl, formData) ==
    IF validateStockEntry(formData) # {}
    THEN UNCHANGED <<state, storage, changed, nextId>>
    ELSE /\ state' = stockReducer(state, [type |-> "ADD_ENTRY",
                                          payload |-> createStockEntry(formData, nextId)])
         /\ storage' = Append(cl.entries, createStockEntry(formData, nextId))
         /\ changed' = changed \cup {"entries"}
         /\ nextId' = nextId + 1

updateEntry(cl, id, formData) ==
    IF validateStockEntry(formData) # {} \/ ~(\E i \in 1..Len(cl.entries) : cl.entries[i].id = id)
    THEN UNCHANGED <<state, storage, changed>>
    ELSE LET existingEntry == cl.entries[CHOOSE i \in 1..Len(cl.entries) : cl.entries[i].id = id]
             updatedEntry == updateStockEntry(existingEntry, formData)
         IN /\ state' = stockReducer(state, [type |-> "UPDATE_ENTRY",
                                             payload |-> [id |-> id, entry |-> updatedEntry]])
            /\ storage' = [i \in 1..Len(cl.entries) |->
                              IF cl.entries[i].id = id THEN updatedEntry ELSE cl.entries[i]]
            /\ changed' = changed \cup {"entries"}

deleteEntry(cl, id) ==
    /\ state' = stockReducer(state, [type |-> "DELETE_ENTRY", payload |-> id])
    /\ storage' = SelectSeq(cl.entries, LAMBDA e : e.id # id)
    /\ changed' = changed \cup {"entries"}

clearEntries ==
    /\ state' = stockReducer(state, [type |-> "CLEAR_ENTRIES"])
    /\ storage' = << >>
    /\ changed' = changed \cup {"entries"}

updateSettings(newSettings) ==
    /\ state' = stockReducer(state, [type |-> "UPDATE_SETTINGS", payload |-> newSettings])
    /\ changed' = changed \cup DepsChanged(state, state', FALSE)

\* A user event is handled when the last commit's effects have run, by the
\* callbacks of that render: they close over the current state.
Settled == pc = "idle" /\ changed = {}

SubmitEntry ==
    /\ Settled /\ nextId <= MaxEntries
    /\ \E formData \in FormData : addEntry(state, formData)
    /\ closure' = state
    /\ rows' = 0
    /\ UNCHANGED pc
    /\ UNCHANGED engineVars

EditEntry ==
    /\ Settled
    /\ \E id \in 0..MaxEntries, formData \in FormData : updateEntry(state, id, formData)
    /\ closure' = state
    /\ rows' = 0
    /\ UNCHANGED <<pc, nextId>>
    /\ UNCHANGED engineVars

DeleteEntry ==
    /\ Settled
    /\ \E i \in 1..Len(state.entries) : deleteEntry(state, state.entries[i].id)
    /\ closure' = state
    /\ rows' = 0
    /\ UNCHANGED <<pc, nextId>>
    /\ UNCHANGED engineVars

ClearEntries ==
    /\ Settled
    /\ clearEntries
    /\ closure' = state
    /\ rows' = 0
    /\ UNCHANGED <<pc, nextId>>
    /\ UNCHANGED engineVars

UpdateSettings ==
    /\ Settled
    /\ \E b \in BOOLEAN : updateSettings([autoSave |-> b])
    /\ closure' = state
    /\ rows' = 0
    /\ UNCHANGED <<storage, pc, nextId>>
    /\ UNCHANGED engineVars

\* handleImport / handleLoadSampleData: one handler, so one render's addEntry,
\* is called for every row; commits may happen between the awaited calls.
StartImport ==
    /\ Settled
    /\ pc' = "import"
    /\ closure' = state
    /\ rows' = 0
    /\ UNCHANGED <<state, storage, changed, nextId>>
    /\ UNCHANGED engineVars

ImportRow ==
    /\ pc = "import" /\ nextId <= MaxEntries
    /\ \E formData \in FormData : addEntry(closure, formData)
    /\ rows' = rows + (nextId' - nextId)
    /\ UNCHANGED <<closure, pc>>
    /\ UNCHANGED engineVars

FinishImport ==
    /\ pc = "import"
    /\ pc' = "idle"
    /\ UNCHANGED <<state, storage, closure, changed, rows, nextId>>
    /\ UNCHANGED engineVars

NextStore ==
    \/ Mount
    \/ RunEffects
    \/ SubmitEntry
    \/ EditEntry
    \/ DeleteEntry
    \/ ClearEntries
    \/ UpdateSettings
    \/ StartImport
    \/ ImportRow
    \/ FinishImport

SpecStore == InitStore /\ [][NextStore]_vars

\* ======================================================== lot claims
LotOps == {"calculateRealizedProfitLossForStock", "calculateFIFOAverageCost",
           "calculateFIFOCostBasis"}

StrictlyDated(es) == \A i \in 1..(Len(es) - 1) : es[i].date < es[i + 1].date

ZeroFees(es) == \A i \in 1..Len(es) : es[i].fees = 0

\* Cost basis the matcher charges to the k-th transaction in date order
\* (a sell matched on the spot): what `charged` grows by when it is processed.
ChargedAt(es, k) ==
    RSub(MatchEntries(MatcherInit, SubSeq(SortByDate(es), 1, k)).charged,
         MatchEntries(MatcherInit, SubSeq(SortByDate(es), 1, k - 1)).charged)

\* In date order the symbol is never short: up to every transaction, no
\* more shares sold than bought (no sell waits for a later buy, none is
\* priced by the average-cost fallback).
NeverShort(es) ==
    \A k \in 1..Len(es) :
        TotalSellShares(SubSeq(SortByDate(es), 1, k))
            <= TotalBuyShares(SubSeq(SortByDate(es), 1, k))

\* C1 (as claimed): cost basis charged to the sells by the lot matcher plus
\* cost basis of the remaining open lots equals the total buy cost of the
\* symbol, sum over its buys of quantity * price + fees.  Stated for the
\* lists in which every sell is matched on the spot against earlier buys.
C1_Conservation ==
    (op = "calculateFIFOCostBasis" /\ NeverShort(arg))
        => RAdd(RunMatcher(arg).charged, ret) = TotalBuyCost(arg)

\* C2: FIFO order.  Buys B1 then B2 by timestamp followed by a sell of at
\* most B1's quantity: the cost basis comes from B1 only, and B2 stays in
\* the queue with its full quantity, price and fees.
C2_Case ==
    /\ op = "calculateRealizedProfitLossForStock"
    /\ Len(arg) = 3
    /\ StrictlyDated(SortByDate(arg))
    /\ SortByDate(arg)[1].type = "buy"
    /\ SortByDate(arg)[2].type = "buy"
    /\ SortByDate(arg)[3].type = "sell"
    /\ SortByDate(arg)[3].quantity <= SortByDate(arg)[1].quantity

C2_FIFOOrder ==
    C2_Case =>
        LET B1 == SortByDate(arg)[1]
            B2 == SortByDate(arg)[2]
            S == SortByDate(arg)[3]
            costBasis == RMul(R(S.quantity),
                              RAdd(R(B1.price), RDiv(R(B1.fees), R(B1.quantity))))
            queue == RunMatcher(arg).buyQueue
        IN  /\ ret = RSub(R(S.quantity * S.price - S.fees), costBasis)
            /\ RunMatcher(arg).charged = costBasis
            /\ Len(queue) >= 1
            /\ queue[Len(queue)] = NewLot(B2)
            /\ Len(queue) = IF S.quantity = B1.quantity THEN 1 ELSE 2

\* a sell of exactly B1's quantity, two lots at different prices, no fees:
\* the realized result is quantity * (sell price - B1's price)
C2_Witness ==
    /\ C2_Case
    /\ ZeroFees(arg)
    /\ SortByDate(arg)[1].price # SortByDate(arg)[2].price
    /\ SortByDate(arg)[3].quantity = SortByDate(arg)[1].quantity
    /\ arg # SortByDate(arg)
    /\ ret = R(SortByDate(arg)[3].quantity
               * (SortByDate(arg)[3].price - SortByDate(arg)[1].price))
    /\ RunMatcher(arg).buyQueue = <<NewLot(SortByDate(arg)[2])>>

\* C3 (as claimed): fee proration.  One buy lot (quantity Q, fee F)
\* consumed by two sells that together take the whole lot: each sell is
\* charged price * taken + F * taken / Q, so the fees charged sum to F.
C3_Case ==
    /\ op = "calculateRealizedProfitLossForStock"
    /\ Len(arg) = 3
    /\ SortByDate(arg)[1].type = "buy"
    /\ SortByDate(arg)[2].type = "sell"
    /\ SortByDate(arg)[3].type = "sell"
    /\ SortByDate(arg)[2].quantity + SortByDate(arg)[3].quantity = SortByDate(arg)[1].quantity

ProratedCost(B, taken) ==
    RAdd(R(taken * B.price), RDiv(R(B.fees * taken), R(B.quantity)))

C3_FeeProration ==
    C3_Case =>
        LET B == SortByDate(arg)[1]
        IN  /\ ChargedAt(arg, 2) = ProratedCost(B, SortByDate(arg)[2].quantity)
            /\ ChargedAt(arg, 3) = ProratedCost(B, SortByDate(arg)[3].quantity)
            /\ RunMatcher(arg).charged = R(B.quantity * B.price + B.fees)

\* C4 (as claimed): sell-before-buy.  A sell of q shares dated before a buy
\* of Q >= q shares, no fees: realized = q * sellPrice - q * buyPrice, and
\* the open lot behind averageCost and remainingSharesCostBasis is Q - q
\* shares at the buy price.
C4_Case ==
    /\ op \in LotOps
    /\ Len(arg) = 2
    /\ ZeroFees(arg)
    /\ StrictlyDated(SortByDate(arg))
    /\ SortByDate(arg)[1].type = "sell"
    /\ SortByDate(arg)[2].type = "buy"
    /\ SortByDate(arg)[2].quantity >= SortByDate(arg)[1].quantity

C4_SellBeforeBuy ==
    C4_Case =>
        LET S == SortByDate(arg)[1]
            B == SortByDate(arg)[2]
            left == B.quantity - S.quantity
        IN  /\ op = "calculateRealizedProfitLossForStock"
                => ret = R(S.quantity * S.price - S.quantity * B.price)
            /\ op = "calculateFIFOCostBasis" => ret = R(left * B.price)
            /\ op = "calculateFIFOAverageCost"
                => ret = IF left > 0 THEN R(B.price) ELSE Zero

\* C5: partial lot consumption.  A buy of Q at P followed by a sell of
\* q < Q at S, no fees: realized = q * S - q * P, one open lot of Q - q
\* shares at P is left, averageCost = P, remainingSharesCostBasis = (Q - q) * P.
C5_Case ==
    /\ op \in LotOps
    /\ Len(arg) = 2
    /\ ZeroFees(arg)
    /\ SortByDate(arg)[1].type = "buy"
    /\ SortByDate(arg)[2].type = "sell"
    /\ SortByDate(arg)[2].quantity < SortByDate(arg)[1].quantity

C5_PartialLot ==
    C5_Case =>
        LET B == SortByDate(arg)[1]
            S == SortByDate(arg)[2]
            left == B.quantity - S.quantity
        IN  /\ op = "calculateRealizedProfitLossForStock"
                => /\ ret = R(S.quantity * S.price - S.quantity * B.price)
                   /\ RunMatcher(arg).buyQueue =
                          <<[quantity |-> left, price |-> B.price, fees |-> 0]>>
            /\ op = "calculateFIFOCostBasis" => ret = R(left * B.price)
            /\ op = "calculateFIFOAverageCost" => ret = R(B.price)

C5_Witness ==
    /\ C5_Case
    /\ op = "calculateFIFOCostBasis"
    /\ SortByDate(arg)[1].price # SortByDate(arg)[2].price
    /\ ret = R((SortByDate(arg)[1].quantity - SortByDate(arg)[2].quantity)
               * SortByDate(arg)[1].price)
    /\ calculateFIFOAverageCost(arg) = R(SortByDate(arg)[1].price)

\* C8 (as claimed): the lot functions leave the caller's array as it was,
\* same records in the same order.
C8_NoMutation ==
    op \in LotOps => entries = arg

\* ================================================== portfolio claims
PortfolioOps == {"calculateStockPositions", "calculatePortfolioStats"}

SymbolsIn(es) == {es[i].symbol : i \in 1..Len(es)}

\* shares of a symbol bought minus shares sold, summed over the list
RECURSIVE NetShares(_, _)
NetShares(es, symbol) ==
    IF es = << >> THEN 0
    ELSE NetShares(Tail(es), symbol)
         + (IF Head(es).symbol # symbol THEN 0
            ELSE IF Head(es).type = "buy" THEN Head(es).quantity
            ELSE -Head(es).quantity)

FullySold(es, symbol) == symbol \in SymbolsIn(es) /\ NetShares(es, symbol) = 0

\* C6: one Position per distinct symbol of the list, fully sold symbols
\* (sharesOwned = 0) included; a fully sold symbol counts in uniqueStocks and
\* not in stocksWithHoldings.
C6_OnePositionPerSymbol ==
    /\ op = "calculateStockPositions" =>
        /\ Len(ret) = Cardinality(SymbolsIn(arg))
        /\ \A s \in SymbolsIn(arg) :
              /\ Cardinality({i \in 1..Len(ret) : ret[i].symbol = s}) = 1
              /\ \A i \in 1..Len(ret) :
                    ret[i].symbol = s => ret[i].sharesOwned = NetShares(arg, s)
    /\ op = "calculatePortfolioStats" =>
        /\ ret.uniqueStocks = Cardinality(SymbolsIn(arg))
        /\ ret.stocksWithHoldings =
              Cardinality({s \in SymbolsIn(arg) : NetShares(arg, s) > 0})

\* a fully sold symbol next to one that is held: two positions, one holding
C6_Witness ==
    /\ op = "calculateStockPositions"
    /\ Len(arg) = 3
    /\ FullySold(arg, Symbols[1])
    /\ NetShares(arg, Symbols[2]) > 0
    /\ Len(ret) = 2
    /\ ret[1].symbol = Symbols[1]
    /\ ret[1].sharesOwned = 0
    /\ calculatePortfolioStats(arg).uniqueStocks = 2
    /\ calculatePortfolioStats(arg).stocksWithHoldings = 1

Permuted(es) ==
    IF es = << >> THEN {<< >>}
    ELSE {[i \in 1..Len(es) |-> es[f[i]]] : f \in Permutations(1..Len(es))}

SameSymbol(e1, e2) == e1.symbol = e2.symbol

\* per symbol: pairwise distinct timestamps, one stockName
C9_Pre(es) ==
    \A i, j \in 1..Len(es) :
        (i # j /\ SameSymbol(es[i], es[j]))
            => (es[i].date # es[j].date /\ es[i].stockName = es[j].stockName)

\* C9: input order is irrelevant.  Every permutation of a list whose
\* symbols each have pairwise distinct timestamps and one stockName gives
\* the same Positions and the same PortfolioStats.
C9_OrderIrrelevant ==
    C9_Pre(arg) =>
        /\ op = "calculateStockPositions"
              => \A es \in Permuted(arg) : calculateStockPositions(es, prices) = ret
        /\ op = "calculatePortfolioStats"
              => \A es \in Permuted(arg) : calculatePortfolioStats(es) = ret

\* three trades of one symbol given out of date order, for which matching
\* in the order given would realize a different amount
C9_Witness ==
    /\ op = "calculateStockPositions"
    /\ C9_Pre(arg)
    /\ Len(arg) = 3
    /\ SymbolsIn(arg) = {Symbols[1]}
    /\ arg # SortByDate(arg)
    /\ MatchEntries(MatcherInit, arg).totalRealizedProfitLoss
          # MatchEntries(MatcherInit, SortByDate(arg)).totalRealizedProfitLoss
    /\ ret[1].realizedProfitLoss = calculateRealizedProfitLossForStock(SortByDate(arg))

OnlySells(es) == \A i \in 1..Len(es) : es[i].type = "sell"

\* C10: zero-invested safety.  On the empty list every numeric field of
\* PortfolioStats is 0; when totalInvested = 0 (a list of sells only, for
\* one) gainLossPercentage is 0; otherwise it is
\* totalGainLoss / totalInvested * 100.
C10_ZeroInvested ==
    op = "calculatePortfolioStats" =>
        /\ arg = << >> =>
              ret = [totalInvested |-> Zero, totalReceived |-> Zero,
                     realizedProfitLoss |-> Zero, currentValue |-> Zero,
                     unrealizedGainLoss |-> Zero, totalGainLoss |-> Zero,
                     gainLossPercentage |-> Zero, uniqueStocks |-> 0,
                     stocksWithHoldings |-> 0, totalTransactions |-> 0]
        /\ OnlySells(arg) => (ret.totalInvested = Zero /\ ret.gainLossPercentage = Zero)
        /\ ret.totalInvested = Zero => ret.gainLossPercentage = Zero
        /\ ret.totalInvested # Zero =>
              ret.gainLossPercentage
                  = RMul(RDiv(ret.totalGainLoss, ret.totalInvested), R(100))

\* sells only: nothing invested, percentage 0
C10_Witness ==
    /\ op = "calculatePortfolioStats"
    /\ Len(arg) = 2
    /\ OnlySells(arg)
    /\ RPos(ret.totalReceived)
    /\ ret.totalInvested = Zero
    /\ ret.gainLossPercentage = Zero

\* the Position of symbol s in a list of Positions (s has one)
PositionFor(positions, s) ==
    positions[CHOOSE i \in 1..Len(positions) : positions[i].symbol = s]

HasPosition(positions, s) == \E i \in 1..Len(positions) : positions[i].symbol = s

Oversold(es, s) == s \in SymbolsIn(es) /\ NetShares(es, s) < 0

\* C11: a symbol with more shares sold than bought still gets its Position,
\* with sharesOwned = totalSharesBought - totalSharesSold < 0 (not clamped
\* to 0), currentValue = 0 and unrealizedGainLoss = 0, and every other
\* symbol of the list gets its Position too.
C11_OversoldSurfaced ==
    op = "calculateStockPositions" =>
        \A s \in SymbolsIn(arg) :
            Oversold(arg, s) =>
                /\ HasPosition(ret, s)
                /\ PositionFor(ret, s).sharesOwned
                      = PositionFor(ret, s).totalSharesBought
                        - PositionFor(ret, s).totalSharesSold
                /\ PositionFor(ret, s).sharesOwned = NetShares(arg, s)
                /\ PositionFor(ret, s).sharesOwned < 0
                /\ PositionFor(ret, s).currentValue = Zero
                /\ PositionFor(ret, s).unrealizedGainLoss = Zero
                /\ \A t \in SymbolsIn(arg) : HasPosition(ret, t)
                /\ Len(ret) = Cardinality(SymbolsIn(arg))

\* the first symbol oversold with a market price supplied for it, next to
\* a second symbol that is held
C11_Witness ==
    /\ op = "calculateStockPositions"
    /\ Symbols[1] \in DOMAIN prices
    /\ Oversold(arg, Symbols[1])
    /\ NetShares(arg, Symbols[2]) > 0
    /\ Len(ret) = 2
    /\ ret[1].sharesOwned < 0
    /\ ret[1].currentValue = Zero
    /\ ret[2].sharesOwned > 0

\* C12: in every Position returned by calculateStockPositions, when
\* sharesOwned > 0 and the price map has a price for the symbol,
\* currentValue = sharesOwned * price and unrealizedGainLoss = currentValue
\* - remainingSharesCostBasis; otherwise both are 0.
C12_CurrentValue ==
    op = "calculateStockPositions" =>
        \A i \in 1..Len(ret) :
            IF ret[i].sharesOwned > 0 /\ ret[i].symbol \in DOMAIN prices
            THEN /\ ret[i].currentValue = R(ret[i].sharesOwned * prices[ret[i].symbol])
                 /\ ret[i].unrealizedGainLoss
                       = RSub(ret[i].currentValue, ret[i].remainingSharesCostBasis)
            ELSE /\ ret[i].currentValue = Zero
                 /\ ret[i].unrealizedGainLoss = Zero

\* both symbols held, a price supplied for the first only: the first is
\* valued at the market price, the second at 0
C12_Witness ==
    /\ op = "calculateStockPositions"
    /\ Len(ret) = 2
    /\ Symbols[1] \in DOMAIN prices
    /\ Symbols[2] \notin DOMAIN prices
    /\ ret[1].sharesOwned > 0
    /\ ret[2].sharesOwned > 0
    /\ ret[1].currentValue = R(ret[1].sharesOwned * MarketPrice)
    /\ ret[1].unrealizedGainLoss # Zero
    /\ ret[2].currentValue = Zero
    /\ ret[2].unrealizedGainLoss = Zero
    /\ RPos(ret[2].remainingSharesCostBasis)

\* ======================================================== lot claims (2)
RemainingOps == {"calculateFIFOAverageCost", "calculateFIFOCostBasis"}

\* C13 (as claimed): averageCost is the cost of the open lots the matcher
\* leaves divided by their total quantity and remainingSharesCostBasis is
\* their cost; for a fully sold symbol and for a symbol with sells only no
\* lot is left and both are exactly 0.
C13_AverageCost ==
    /\ op = "calculateFIFOAverageCost" => ret = AverageLotCost(RunMatcher(arg).buyQueue)
    /\ op = "calculateFIFOCostBasis" => ret = LotsCost(RunMatcher(arg).buyQueue)
    /\ (op \in RemainingOps
        /\ (OnlySells(arg) \/ TotalBuyShares(arg) = TotalSellShares(arg)))
           => ret = Zero

\* ================================================ portfolio claims (2)
\* sum over the buys of symbol s of quantity * price + fees
RECURSIVE InvestedIn(_, _)
InvestedIn(es, s) ==
    IF es = << >> THEN 0
    ELSE InvestedIn(Tail(es), s)
         + (IF Head(es).symbol = s /\ Head(es).type = "buy"
            THEN Head(es).quantity * Head(es).price + Head(es).fees ELSE 0)

\* sum over the sells of symbol s of quantity * price - fees
RECURSIVE ReceivedIn(_, _)
ReceivedIn(es, s) ==
    IF es = << >> THEN 0
    ELSE ReceivedIn(Tail(es), s)
         + (IF Head(es).symbol = s /\ Head(es).type = "sell"
            THEN Head(es).quantity * Head(es).price - Head(es).fees ELSE 0)

SumOfField(positions, field) ==
    SumSeq([i \in 1..Len(positions) |-> positions[i][field]])

StatsSumPositions(stats, positions) ==
    /\ stats.totalInvested = SumOfField(positions, "totalInvested")
    /\ stats.totalReceived = SumOfField(positions, "totalReceived")
    /\ stats.realizedProfitLoss = SumOfField(positions, "realizedProfitLoss")

\* C14: totalInvested, totalReceived and realizedProfitLoss of PortfolioStats
\* are the sums of the fields of the same name over the Positions of
\* calculateStockPositions for the same list (with any price map), and a
\* Position's totalInvested is the sum over the symbol's buys of
\* quantity * price + fees, its totalReceived the sum over its sells of
\* quantity * price - fees.
C14_StatsAreSums ==
    /\ op = "calculateStockPositions" =>
          \A i \in 1..Len(ret) :
              /\ ret[i].totalInvested = R(InvestedIn(arg, ret[i].symbol))
              /\ ret[i].totalReceived = R(ReceivedIn(arg, ret[i].symbol))
    /\ op = "calculatePortfolioStats" =>
          \A currentMarketPrices \in PriceMaps :
              StatsSumPositions(ret, calculateStockPositions(arg, currentMarketPrices))

\* both symbols bought, one of them sold with a fee
C14_Witness ==
    /\ op = "calculatePortfolioStats"
    /\ Len(arg) = 3
    /\ InvestedIn(arg, Symbols[1]) > 0
    /\ InvestedIn(arg, Symbols[2]) > 0
    /\ ReceivedIn(arg, Symbols[1]) > 0
    /\ ret.totalInvested = R(InvestedIn(arg, Symbols[1]) + InvestedIn(arg, Symbols[2]))
    /\ ret.totalReceived = R(ReceivedIn(arg, Symbols[1]))
    /\ ret.realizedProfitLoss # Zero
    /\ ret.realizedProfitLoss
          = calculateRealizedProfitLossForStock(EntriesOf(arg, Symbols[1]))

BuysOf(es, s) == {i \in 1..Len(es) : es[i].symbol = s /\ es[i].type = "buy"}

\* the buy of symbol s with the latest timestamp
LatestBuy(es, s) ==
    CHOOSE i \in BuysOf(es, s) : \A j \in BuysOf(es, s) : es[j].date <= es[i].date

\* shares of s held times the price of its most recent buy; nothing for a
\* symbol that is not held
HeldValue(es, s) ==
    IF NetShares(es, s) > 0 THEN NetShares(es, s) * es[LatestBuy(es, s)].price ELSE 0

\* C15: PortfolioStats.currentValue is the sum, over the symbols with
\* sharesOwned > 0, of sharesOwned times the price of the symbol's most
\* recent buy; symbols with sharesOwned <= 0 add nothing.
C15_CurrentValueByLatestBuy ==
    op = "calculatePortfolioStats" =>
        ret.currentValue = R(SumInt([k \in 1..Len(Symbols) |-> HeldValue(arg, Symbols[k])]))

\* the first symbol bought twice at two prices, the later buy listed first;
\* the second symbol sold without being held
C15_Witness ==
    /\ op = "calculatePortfolioStats"
    /\ Len(arg) = 3
    /\ Cardinality(BuysOf(arg, Symbols[1])) = 2
    /\ arg[1].symbol = Symbols[1]
    /\ LatestBuy(arg, Symbols[1]) = 1
    /\ \E j \in BuysOf(arg, Symbols[1]) : arg[j].price # arg[1].price
    /\ NetShares(arg, Symbols[2]) < 0
    /\ ret.currentValue = R(NetShares(arg, Symbols[1]) * arg[1].price)

\* the transactions of the other symbols that can be added or put in place
\* of one
OtherEntries(s) == {e \in PortfolioEntry : e.symbol # s}

\* `position` is one of the Positions calculateStockPositions gives for es
PositionIn(position, es, currentMarketPrices) ==
    SelectSeq(calculateStockPositions(es, currentMarketPrices),
              LAMBDA p : p = position) # << >>

\* C16: per-symbol independence.  The Position of a symbol A is the one
\* calculateStockPositions gives for A's transactions alone, and it stays
\* the same, field by field, when a transaction of another symbol is
\* removed, added (at either end of the list), or replaced by another one
\* (the timestamps of the changed list pairwise distinct, as in every list).
C16_SymbolIndependence ==
    op = "calculateStockPositions" =>
        \A A \in SymbolsIn(arg) :
            /\ HasPosition(ret, A)
            /\ PositionIn(PositionFor(ret, A), EntriesOf(arg, A), prices)
            /\ \A i \in 1..Len(arg) :
                  arg[i].symbol # A =>
                      /\ PositionIn(PositionFor(ret, A), RemoveAt(arg, i), prices)
                      /\ \A e \in OtherEntries(A) :
                            DistinctDates([arg EXCEPT ![i] = e]) =>
                                PositionIn(PositionFor(ret, A), [arg EXCEPT ![i] = e], prices)
            /\ \A e \in OtherEntries(A) :
                  DistinctDates(Append(arg, e)) =>
                      /\ PositionIn(PositionFor(ret, A), Append(arg, e), prices)
                      /\ PositionIn(PositionFor(ret, A), <<e>> \o arg, prices)

\* a list of both symbols in which the first symbol has realized a result
\* and the second symbol's transactions lie between the first one's
C16_Witness ==
    /\ op = "calculateStockPositions"
    /\ Len(arg) = 3
    /\ arg[1].symbol = Symbols[1]
    /\ arg[2].symbol = Symbols[2]
    /\ arg[3].symbol = Symbols[1]
    /\ PositionFor(ret, Symbols[1]).realizedProfitLoss # Zero
    /\ PositionFor(ret, Symbols[1])
          = calculateStockPositions(<<arg[1], arg[3]>>, prices)[1]
    /\ PositionFor(ret, Symbols[1]).transactions = SortByDate(<<arg[1], arg[3]>>)

\* realized result of symbol s, from its own transactions
RealizedOf(es, s) == calculateRealizedProfitLossForStock(EntriesOf(es, s))

PartlySold(es) ==
    /\ Len(es) = 2
    /\ SortByDate(es)[1].type = "buy"
    /\ SortByDate(es)[2].type = "sell"
    /\ SortByDate(es)[2].quantity < SortByDate(es)[1].quantity

\* q * sellPrice - sellFees - q * (buyPrice + buyFees / Q)
PartSaleResult(B, S) ==
    RSub(R(S.quantity * S.price - S.fees),
         RMul(R(S.quantity), RAdd(R(B.price), RDiv(R(B.fees), R(B.quantity)))))

StateAt(es, k) == MatchEntries(MatcherInit, SubSeq(SortByDate(es), 1, k))

\* what the k-th transaction in date order adds to the realized total
RealizedAt(es, k) ==
    RSub(StateAt(es, k).totalRealizedProfitLoss, StateAt(es, k - 1).totalRealizedProfitLoss)

\* Open lots as the specification has them: each lot remembers the quantity
\* it was bought with.
RefLot(entry) ==
    [quantity |-> entry.quantity, price |-> entry.price, fees |-> entry.fees,
     originalQuantity |-> entry.quantity]

\* sum over the lots consumed, oldest first, by a sale of q shares of
\* sharesTaken * (lotPrice + lotFees / lotOriginalQuantity)
RECURSIVE RefCost(_, _)
RefCost(lots, q) ==
    IF q = 0 \/ lots = << >> THEN Zero
    ELSE RAdd(RMul(R(Min(q, Head(lots).quantity)),
                   RAdd(R(Head(lots).price),
                        RDiv(R(Head(lots).fees), R(Head(lots).originalQuantity)))),
              RefCost(Tail(lots), q - Min(q, Head(lots).quantity)))

\* the lots left after q shares have been taken, oldest first
RECURSIVE RefTake(_, _)
RefTake(lots, q) ==
    IF q = 0 \/ lots = << >> THEN lots
    ELSE IF q >= Head(lots).quantity THEN RefTake(Tail(lots), q - Head(lots).quantity)
    ELSE <<[Head(lots) EXCEPT !.quantity = @ - q]>> \o Tail(lots)

RECURSIVE RefOpen(_, _)
RefOpen(lots, sortedEntries) ==
    IF sortedEntries = << >> THEN lots
    ELSE RefOpen(IF Head(sortedEntries).type = "buy"
                 THEN Append(lots, RefLot(Head(sortedEntries)))
                 ELSE RefTake(lots, Head(sortedEntries).quantity),
                 Tail(sortedEntries))

\* C18 (as claimed): a sell whose whole quantity is matched adds
\* (quantity * price - fees) - sum over the lots it consumes of
\* sharesTaken * (lotPrice + lotFees / lotOriginalQuantity) to the realized
\* total, also when its first lot was partly consumed by an earlier sell.
\* Stated for the lists in which every sell is matched on the spot.
C18_MatchedSell ==
    (op = "calculateRealizedProfitLossForStock" /\ NeverShort(arg)) =>
        \A k \in 1..Len(arg) :
            SortByDate(arg)[k].type = "sell" =>
                RealizedAt(arg, k)
                    = RSub(R(SortByDate(arg)[k].quantity * SortByDate(arg)[k].price
                             - SortByDate(arg)[k].fees),
                           RefCost(RefOpen(<< >>, SubSeq(SortByDate(arg), 1, k - 1)),
                                   SortByDate(arg)[k].quantity))

\* the k-th transaction in date order is a sell of more shares than the
\* queue holds, and the queue holds some
PartlyMatched(es, k) ==
    /\ SortByDate(es)[k].type = "sell"
    /\ LotsShares(StateAt(es, k - 1).buyQueue) > 0
    /\ LotsShares(StateAt(es, k - 1).buyQueue) < SortByDate(es)[k].quantity

AllBuys(es) == \A i \in 1..Len(es) : es[i].type = "buy"

\* a sell S of which m shares are matched at a cost basis of `cost`, on the
\* matcher states before and after it
PartSellSplit(S, m, cost, before, after) ==
    /\ RSub(after.totalRealizedProfitLoss, before.totalRealizedProfitLoss)
          = RSub(RSub(R(m * S.price), RDiv(R(S.fees * m), R(S.quantity))), cost)
    /\ after.pendingSells
          = Append(before.pendingSells,
                   [quantity |-> S.quantity - m,
                    price |-> S.price,
                    fees |-> RDiv(R(S.fees * (S.quantity - m)), R(S.quantity)),
                    date |-> S.date])
    /\ RAdd(RDiv(R(S.fees * m), R(S.quantity)),
            after.pendingSells[Len(after.pendingSells)].fees) = R(S.fees)
    /\ after.buyQueue = << >>

\* C19: a sell of q shares with fees f that finds m shares, 0 < m < q, in
\* the queue realizes m * price - f * m / q - (cost basis of the m shares)
\* at once and leaves a pending sell of q - m shares at the same price with
\* fees f * (q - m) / q; the two fee parts sum to f.  When the m shares are
\* lots no sell has touched, their cost basis is their whole cost,
\* quantity * price + fees.
C19_PartialSell ==
    op = "calculateRealizedProfitLossForStock" =>
        \A k \in 1..Len(arg) :
            PartlyMatched(arg, k) =>
                /\ PartSellSplit(SortByDate(arg)[k],
                                 LotsShares(StateAt(arg, k - 1).buyQueue),
                                 ChargedAt(arg, k), StateAt(arg, k - 1), StateAt(arg, k))
                /\ AllBuys(SubSeq(SortByDate(arg), 1, k - 1))
                      => ChargedAt(arg, k) = TotalBuyCost(SubSeq(SortByDate(arg), 1, k - 1))

\* buy 1 with a fee, then sell 2 with a fee: one share matched, one pending
\* with half of the sell's fee
C19_Witness ==
    /\ op = "calculateRealizedProfitLossForStock"
    /\ Len(arg) = 2
    /\ arg # SortByDate(arg)
    /\ PartlyMatched(arg, 2)
    /\ SortByDate(arg)[1].fees = 1
    /\ SortByDate(arg)[2].fees = 1
    /\ StateAt(arg, 2).pendingSells
          = <<[quantity |-> 1, price |-> SortByDate(arg)[2].price,
               fees |-> <<1, 2>>, date |-> SortByDate(arg)[2].date]>>
    /\ RealizedAt(arg, 2)
          = RSub(RSub(R(SortByDate(arg)[2].price), <<1, 2>>),
                 R(SortByDate(arg)[1].price + 1))

\* C20 (as claimed): a sell of q shares dated before any buy, then a buy
\* of a < q shares and a buy of at least q - a shares (buys without fees):
\* once the second buy has come, the realized result is the sell's whole
\* proceeds q * price - fees minus the cost of all q shares matched to it,
\* a at the first buy's price and q - a at the second's.
C20_Case ==
    /\ op = "calculateRealizedProfitLossForStock"
    /\ Len(arg) = 3
    /\ StrictlyDated(SortByDate(arg))
    /\ SortByDate(arg)[1].type = "sell"
    /\ SortByDate(arg)[2].type = "buy"
    /\ SortByDate(arg)[3].type = "buy"
    /\ SortByDate(arg)[2].fees = 0
    /\ SortByDate(arg)[3].fees = 0
    /\ SortByDate(arg)[2].quantity < SortByDate(arg)[1].quantity
    /\ SortByDate(arg)[2].quantity + SortByDate(arg)[3].quantity
          >= SortByDate(arg)[1].quantity

C20_PendingAcrossBuys ==
    C20_Case =>
        ret = R(SortByDate(arg)[1].quantity * SortByDate(arg)[1].price
                - SortByDate(arg)[1].fees
                - SortByDate(arg)[2].quantity * SortByDate(arg)[2].price
                - (SortByDate(arg)[1].quantity - SortByDate(arg)[2].quantity)
                  * SortByDate(arg)[3].price)

\* ======================================================== lot claims (4)
\* quantity * price - fees - quantity * averageCostPerShare of a pending sell
LeftoverResult(pendingSell, averageCostPerShare) ==
    RSub(RSub(R(pendingSell.quantity * pendingSell.price), pendingSell.fees),
         RMul(R(pendingSell.quantity), averageCostPerShare))

\* totalBuyCost / totalBuyShares over the buys of the list, fees included
AverageBuyCost(es) == RDiv(R(InvestedIn(es, Symbols[1])), R(TotalBuyShares(es)))

\* C21: the pending sells left when all transactions of the symbol have
\* been processed each add pendingQuantity * price - pendingFees
\* - pendingQuantity * (totalBuyCost / totalBuyShares) to the realized
\* total, totalBuyCost being the sum over all buys of quantity * price + fees.
C21_LeftoverAtAverageCost ==
    (op = "calculateRealizedProfitLossForStock" /\ ~OnlySells(arg)) =>
        ret = RAdd(StateAt(arg, Len(arg)).totalRealizedProfitLoss,
                   SumSeq([i \in 1..Len(StateAt(arg, Len(arg)).pendingSells) |->
                             LeftoverResult(StateAt(arg, Len(arg)).pendingSells[i],
                                            AverageBuyCost(arg))]))

\* buy 1 then sell 2, both with a fee: one share is matched on the spot,
\* the other is left pending and priced with the average buy cost
C21_Witness ==
    /\ op = "calculateRealizedProfitLossForStock"
    /\ Len(arg) = 2
    /\ SortByDate(arg)[1].type = "buy"
    /\ SortByDate(arg)[1].quantity = 1
    /\ SortByDate(arg)[1].fees = 1
    /\ SortByDate(arg)[2].type = "sell"
    /\ SortByDate(arg)[2].quantity = 2
    /\ SortByDate(arg)[2].fees = 1
    /\ Len(StateAt(arg, 2).pendingSells) = 1
    /\ ret = R(2 * SortByDate(arg)[2].price - 1 - 2 * (SortByDate(arg)[1].price + 1))

\* C22: for a symbol with sells and no buy at all
\* calculateRealizedProfitLossForStock returns 0.
C22_SellsOnly ==
    (op = "calculateRealizedProfitLossForStock" /\ arg # << >> /\ OnlySells(arg))
        => ret = Zero

\* two sells and nothing bought: both are left pending, the result is 0
C22_Witness ==
    /\ op = "calculateRealizedProfitLossForStock"
    /\ Len(arg) = 2
    /\ OnlySells(arg)
    /\ Len(RunMatcher(arg).pendingSells) = 2
    /\ RunMatcher(arg).buyQueue = << >>
    /\ ret = Zero

\* the entries of es dated d or later, by date, those of one date in the
\* order es lists them
RECURSIVE StableFrom(_, _)
StableFrom(es, d) ==
    IF d > MaxDate THEN << >>
    ELSE SelectSeq(es, LAMBDA e : e.date = d) \o StableFrom(es, d + 1)

StableByDate(es) == StableFrom(es, 1)

\* two buys of one timestamp, es[i] listed before es[j], and a later sell
\* es[k] of at most es[i].quantity shares
TiedBuys(es, i, j, k) ==
    /\ Len(es) = 3
    /\ i < j
    /\ es[i].type = "buy"
    /\ es[j].type = "buy"
    /\ es[k].type = "sell"
    /\ es[i].date = es[j].date
    /\ es[k].date > es[i].date
    /\ es[k].quantity <= es[i].quantity

\* a sell listed right before a buy of the same timestamp and of at least
\* as many shares
TiedSellBuy(es) ==
    /\ Len(es) = 2
    /\ es[1].type = "sell"
    /\ es[2].type = "buy"
    /\ es[1].date = es[2].date
    /\ es[1].quantity <= es[2].quantity

\* C23: tie-break.  Transactions of one timestamp are processed in the
\* order the input lists them.  Of two buys with one timestamp the one
\* listed first is consumed first by a later sell (the other lot stays
\* whole), and a sell listed before a buy of the same timestamp is a
\* sell-before-buy: it waits as a pending sell until the buy is processed.
C23_TieBreak ==
    op = "calculateRealizedProfitLossForStock" =>
        /\ entries = StableByDate(arg)
        /\ \A i, j, k \in 1..Len(arg) :
              TiedBuys(arg, i, j, k) =>
                  /\ ret = RSub(R(arg[k].quantity * arg[k].price - arg[k].fees),
                                RMul(R(arg[k].quantity),
                                     RAdd(R(arg[i].price),
                                          RDiv(R(arg[i].fees), R(arg[i].quantity)))))
                  /\ RunMatcher(arg).buyQueue # << >>
                  /\ RunMatcher(arg).buyQueue[Len(RunMatcher(arg).buyQueue)] = NewLot(arg[j])
        /\ TiedSellBuy(arg) =>
              /\ Len(StateAt(arg, 1).pendingSells) = 1
              /\ StateAt(arg, 1).buyQueue = << >>
              /\ StateAt(arg, 2).pendingSells = << >>
              /\ ret = RSub(R(arg[1].quantity * arg[1].price - arg[1].fees),
                            RMul(R(arg[1].quantity),
                                 RAdd(R(arg[2].price),
                                      RDiv(R(arg[2].fees), R(arg[2].quantity)))))

\* two buys of one timestamp at different prices, the dearer one listed
\* first, and a later sell that empties the first lot
C23_Witness ==
    /\ op = "calculateRealizedProfitLossForStock"
    /\ TiedBuys(arg, 1, 2, 3)
    /\ arg[1].price > arg[2].price
    /\ arg[3].quantity = arg[1].quantity
    /\ ZeroFees(arg)
    /\ ret = R(arg[3].quantity * (arg[3].price - arg[1].price))
    /\ RunMatcher(arg).buyQueue = <<NewLot(arg[2])>>

\* C24: for a symbol whose transactions have no fees and that is never
\* short in timestamp order, realizedProfitLoss = totalReceived
\* - (totalInvested - remainingSharesCostBasis).
C24_RealizedFromTotals ==
    (op = "calculateRealizedProfitLossForStock" /\ ZeroFees(arg) /\ NeverShort(arg)) =>
        ret = RSub(R(ReceivedIn(arg, Symbols[1])),
                   RSub(R(InvestedIn(arg, Symbols[1])), calculateFIFOCostBasis(arg)))

\* two lots at different prices and a sell that takes all of the first and
\* part of the second
C24_Witness ==
    /\ op = "calculateRealizedProfitLossForStock"
    /\ ZeroFees(arg)
    /\ NeverShort(arg)
    /\ Len(arg) = 3
    /\ SortByDate(arg)[1].type = "buy"
    /\ SortByDate(arg)[2].type = "buy"
    /\ SortByDate(arg)[3].type = "sell"
    /\ SortByDate(arg)[1].price # SortByDate(arg)[2].price
    /\ SortByDate(arg)[3].quantity > SortByDate(arg)[1].quantity
    /\ RPos(calculateFIFOCostBasis(arg))
    /\ ret # Zero
    /\ ret = RSub(R(ReceivedIn(arg, Symbols[1])),
                  RSub(R(InvestedIn(arg, Symbols[1])), calculateFIFOCostBasis(arg)))

\* C25: inside calculateRealizedProfitLossForStock, after each transaction
\* has been processed, every lot of buyQueue has quantity > 0, every entry
\* of pendingSells has quantity > 0, and buyQueue and pendingSells are not
\* both non-empty.
C25_MatcherQueues ==
    op = "calculateRealizedProfitLossForStock" =>
        \A k \in 0..Len(arg) :
            /\ \A i \in 1..Len(StateAt(arg, k).buyQueue) :
                  StateAt(arg, k).buyQueue[i].quantity > 0
            /\ \A i \in 1..Len(StateAt(arg, k).pendingSells) :
                  StateAt(arg, k).pendingSells[i].quantity > 0
            /\ (StateAt(arg, k).buyQueue = << >> \/ StateAt(arg, k).pendingSells = << >>)

\* a sell that waits, a buy that resolves it and leaves a part of its lot
\* open, and a second sell that empties the queue and waits in turn
C25_Witness ==
    /\ op = "calculateRealizedProfitLossForStock"
    /\ Len(arg) = 3
    /\ Len(StateAt(arg, 1).pendingSells) = 1
    /\ StateAt(arg, 2).pendingSells = << >>
    /\ Len(StateAt(arg, 2).buyQueue) = 1
    /\ StateAt(arg, 2).buyQueue[1].quantity = 1
    /\ StateAt(arg, 3).buyQueue = << >>
    /\ Len(StateAt(arg, 3).pendingSells) = 1

\* C26 (as claimed): for a single-symbol list with sharesOwned >= 0 the
\* open lots left by calculateFIFOAverageCost / calculateFIFOCostBasis hold
\* sharesOwned shares in total and are the lots left in the buyQueue of
\* calculateRealizedProfitLossForStock; hence averageCost * sharesOwned
\* = remainingSharesCostBasis.
C26_SameLots ==
    (op \in LotOps /\ TotalBuyShares(arg) - TotalSellShares(arg) >= 0) =>
        /\ LotsShares(OpenLots(<< >>, SortByDate(arg)))
              = TotalBuyShares(arg) - TotalSellShares(arg)
        /\ OpenLots(<< >>, SortByDate(arg)) = RunMatcher(arg).buyQueue
        /\ RMul(calculateFIFOAverageCost(arg),
                R(TotalBuyShares(arg) - TotalSellShares(arg)))
              = calculateFIFOCostBasis(arg)

\* ================================================ portfolio claims (3)
\* C27 (as claimed): calculateStockPositions and calculateAllStockPositions
\* return the same Positions for every list and every price map, field by
\* field, unrealizedGainLoss and totalGainLoss included.
C27_SamePositions ==
    op = "calculateStockPositions" => ret = calculateAllStockPositions(arg, prices)

\* C28: calculatePortfolioStats returns unrealizedGainLoss = 0 for every
\* list, so totalGainLoss = realizedProfitLoss, also when currentValue > 0.
C28_NoUnrealizedInStats ==
    op = "calculatePortfolioStats" =>
        /\ ret.unrealizedGainLoss = Zero
        /\ ret.totalGainLoss = ret.realizedProfitLoss

\* shares held and valued, a realized result, and no unrealized one
C28_Witness ==
    /\ op = "calculatePortfolioStats"
    /\ RPos(ret.currentValue)
    /\ ret.stocksWithHoldings = 2
    /\ ret.realizedProfitLoss # Zero
    /\ ret.unrealizedGainLoss = Zero
    /\ ret.totalGainLoss = ret.realizedProfitLoss
    /\ ret.currentValue # ret.totalInvested

\* ========================================================= store claims
\* The entries of state.portfolio (none when the portfolio is null).
PortfolioEntries(portfolio) ==
    IF portfolio = NoPortfolio THEN << >> ELSE portfolio[1].entries

\* C29: after any sequence of addEntry, updateEntry, deleteEntry and
\* clearEntries, once the portfolio effect has run, state.portfolio is the
\* portfolio of the current state.entries: portfolio.entries equals
\* state.entries, so after clearEntries, or after the last entry is deleted,
\* the portfolio holds none of the removed entries.
C29_PortfolioFollowsEntries ==
    changed = {} => PortfolioEntries(state.portfolio) = state.entries

\* C30: when one render's addEntry has been called for several rows in
\* succession, the last call has returned and all effects have run, the
\* entries in storage equal state.entries, whatever settings.autoSave is.
C30_AllAddedPersisted ==
    (pc = "idle" /\ rows >= 2 /\ changed = {}) => storage = state.entries

====
